---- MODULE Spec2Model ----
(***************************************************************************)
(* Model of trolo/export/exporter.py: class ModelExporter.                 *)
(*                                                                         *)
(* Python strings are sequences of one-character strings where the code    *)
(* inspects characters (export_format, dtype); filesystem paths are        *)
(* sequences of tokens, where "/" and "." are tokens of their own and any  *)
(* other token is a run of characters containing neither.  Python values   *)
(* whose type the code tests are tagged records ([t |-> "none"],           *)
(* [t |-> "str", v |-> ...], [t |-> "device", ...]).                       *)
(* Third-party packages (onnx, openvino, tensorrt) are taken as installed. *)
(***************************************************************************)
EXTENDS Integers, Sequences, FiniteSets, TLC

None == [t |-> "none"]
Str(v) == [t |-> "str", v |-> v]
PathObj(v) == [t |-> "path", v |-> v]
IntV(n) == [t |-> "int", v |-> n]
TupleV(v) == [t |-> "tuple", v |-> v]

-----------------------------------------------------------------------------
(* str.lower() and str.strip() *)

UpperCase == <<"A","B","C","D","E","F","G","H","I","J","K","L","M",
               "N","O","P","Q","R","S","T","U","V","W","X","Y","Z">>
LowerCase == <<"a","b","c","d","e","f","g","h","i","j","k","l","m",
               "n","o","p","q","r","s","t","u","v","w","x","y","z">>
Whitespace == {" ", "\t", "\n"}

LowerChar(c) ==
    IF \E i \in 1..Len(UpperCase) : UpperCase[i] = c
    THEN LowerCase[CHOOSE i \in 1..Len(UpperCase) : UpperCase[i] = c]
    ELSE c

Lower(s) == [i \in 1..Len(s) |-> LowerChar(s[i])]

Strip(s) ==
    LET keep == {i \in 1..Len(s) : s[i] \notin Whitespace}
    IN  IF keep = {} THEN <<>>
        ELSE LET lo == CHOOSE i \in keep : \A j \in keep : i <= j
                 hi == CHOOSE i \in keep : \A j \in keep : j <= i
             IN  SubSeq(s, lo, hi)

S_onnx == <<"o","n","n","x">>
S_openvino == <<"o","p","e","n","v","i","n","o">>
S_engine == <<"e","n","g","i","n","e">>
S_tensorrt == <<"t","e","n","s","o","r","r","t">>
S_fp32 == <<"f","p","3","2">>
S_fp16 == <<"f","p","1","6">>
S_int8 == <<"i","n","t","8">>

-----------------------------------------------------------------------------
(* Paths: os.path.splitext, pathlib.Path.stem, os.path.exists *)

\* str.rfind, 1-based; 0 when absent
RFind(p, c) ==
    LET hits == {i \in 1..Len(p) : p[i] = c}
    IN  IF hits = {} THEN 0 ELSE CHOOSE i \in hits : \A j \in hits : j <= i

\* os.path.splitext(p)[0]: the last dot of the last component splits, unless
\* only dots precede it in that component
SplitextRoot(p) ==
    LET sep == RFind(p, "/")
        dot == RFind(p, ".")
    IN  IF dot > sep /\ \E i \in (sep + 1)..(dot - 1) : p[i] # "."
        THEN SubSeq(p, 1, dot - 1)
        ELSE p

\* pathlib.PurePath.name: the last component
PathName(p) == SubSeq(p, RFind(p, "/") + 1, Len(p))

\* pathlib.PurePath.stem: the name without its last suffix; a leading or a
\* trailing dot does not start a suffix
PathStem(p) ==
    LET name == PathName(p)
        i == RFind(name, ".")
    IN  IF 1 < i /\ i < Len(name) THEN SubSeq(name, 1, i - 1) ELSE name

IsAbs(p) == Len(p) > 0 /\ p[1] = "/"

\* the file a path names for the process: relative paths are taken from cwd
Resolve(wd, p) == IF IsAbs(p) THEN p ELSE wd \o <<"/">> \o p

\* os.path.exists
Exists(files, wd, p) == Resolve(wd, p) \in files

\* str.endswith("onnx") on a path string
EndsWithOnnx(p) == Len(p) > 0 /\ p[Len(p)] = "onnx"

-----------------------------------------------------------------------------
(* The environment of one run *)

\* names the model and config registries know
RegistryNames == {<<"dfine-n">>}

\* identifiers a caller passes as `model`
ModelArgs ==
    { Str(<<"dfine-n">>),
      Str(<<"/", "d", "/", "m", ".", "pth">>),
      Str(<<"d", "/", "m", ".", "pth">>),
      Str(<<"m", ".", "pth">>),
      Str(<<"/", "d", ".", "v", "/", "m">>),
      Str(<<"/", "d", "/", "m", ".", "onnx">>),
      None }

\* identifiers a caller passes as `config`
ConfigArgs ==
    { None,
      Str(<<"dfine-n">>),
      Str(<<"/", "c", ".", "yml">>),
      PathObj(<<"/", "c", ".", "yml">>) }

DeviceArgs == { None, Str("cpu"), Str("cuda:0") }

WorkDirs == { <<"/", "w">>, <<"/", "d">> }

\* checkpoint files that may lie on disk before construction
CkptFiles ==
    { <<"/", "cache", "/", "dfine-n", ".", "pth">>,
      <<"/", "d", "/", "m", ".", "pth">>,
      <<"/", "w", "/", "d", "/", "m", ".", "pth">>,
      <<"/", "w", "/", "m", ".", "pth">>,
      <<"/", "d", ".", "v", "/", "m">>,
      <<"/", "d", "/", "m", ".", "onnx">> }

\* config files: the registry's own and a user's
ConfigFiles ==
    { <<"/", "cfgs", "/", "dfine-n", ".", "yml">>, <<"/", "c", ".", "yml">> }

\* the disks a run may start on
InitialDisks ==
    { CkptFiles \cup ConfigFiles,
      ConfigFiles,
      (CkptFiles \cup ConfigFiles) \ {<<"/", "c", ".", "yml">>} }

\* the keys a serialized checkpoint may hold
CheckpointKeys == { {"model"}, {"ema"}, {"ema", "model"}, {"cfg", "model"},
                    {"cfg", "ema"}, {"cfg"} }

VARIABLES phase, files, cwd, checkpoint, cuda, self, module_dev, loads,
          configs_built, modules_built, ctor, last

vars == <<phase, files, cwd, checkpoint, cuda, self, module_dev, loads,
          configs_built, modules_built, ctor, last>>

-----------------------------------------------------------------------------
(* Collaborators outside exporter.py *)

\* utils.smart_defaults.infer_pretrained_model: a registry name becomes the
\* path of its cached checkpoint, a path stays as it is
infer_pretrained_model(model) ==
    IF model \in RegistryNames
    THEN <<"/", "cache", "/">> \o model \o <<".", "pth">>
    ELSE model

\* loaders.maps.get_model_config_path: the registry's config file of a name
get_model_config_path(name) == <<"/", "cfgs", "/">> \o name \o <<".", "yml">>

\* utils.smart_defaults.infer_model_config_path: the config of the model name
infer_model_config_path(model) ==
    IF model \in RegistryNames THEN get_model_config_path(model)
    ELSE get_model_config_path(PathStem(model))

\* utils.smart_defaults.infer_device: the given device, else the best present
infer_device(device, hasCuda) ==
    IF device.t = "none" THEN (IF hasCuda THEN "cuda" ELSE "cpu") ELSE device.v

\* torch.device(string)
TorchDevice(s) ==
    [t |-> "device", type |-> IF s = "cpu" THEN "cpu" ELSE "cuda"]

\* Python's == between a torch.device and another value: torch.device
\* compares only with torch.device, a str compares only with str, so a
\* device and a str are unequal whatever they name
PyEq(a, b) == a.t = b.t /\ a = b

-----------------------------------------------------------------------------
(* ModelExporter.__init__ *)

\* load_config: YAMLConfig(config_path) reads the file
load_config(fs, wd, config_path) ==
    IF Exists(fs, wd, config_path)
    THEN [raised |-> "none",
          config |-> [origin |-> "file", path |-> config_path, pretrained |-> TRUE],
          log |-> <<"info:loading_config">>]
    ELSE [raised |-> "FileNotFoundError",
          config |-> None,
          log |-> <<"info:loading_config">>]

\* the config branches taken in the other order: the embedded config first
MutResolveConfig(fs, wd, ckpt, model, config) ==
    IF "cfg" \in ckpt
    THEN [branches |-> <<"embedded">>, raised |-> "none",
          config |-> [origin |-> "state_dict", path |-> <<>>, pretrained |-> TRUE],
          log |-> <<"info:loading_config_from_checkpoint">>]
    ELSE IF config.t = "none"
    THEN LET r == load_config(fs, wd, infer_model_config_path(model.v))
         IN  [branches |-> <<"inferred">>, raised |-> r.raised,
              config |-> r.config,
              log |-> <<"warning:config_not_in_checkpoint">> \o r.log]
    ELSE LET path == IF config.t = "str" /\ ~Exists(fs, wd, config.v)
                     THEN get_model_config_path(config.v)
                     ELSE config.v
             r == load_config(fs, wd, path)
         IN  [branches |-> <<"explicit">>, raised |-> r.raised,
              config |-> r.config, log |-> r.log]

\* the config branches of __init__: which one runs, and the Config it builds
ResolveConfig(fs, wd, ckpt, model, config) ==
    IF config.t = "none"
    THEN IF "cfg" \in ckpt
         THEN [branches |-> <<"embedded">>, raised |-> "none",
               config |-> [origin |-> "state_dict", path |-> <<>>, pretrained |-> TRUE],
               log |-> <<"info:loading_config_from_checkpoint">>]
         ELSE LET r == load_config(fs, wd, infer_model_config_path(model.v))
              IN  [branches |-> <<"inferred">>, raised |-> r.raised,
                   config |-> r.config,
                   log |-> <<"warning:config_not_in_checkpoint">> \o r.log]
    ELSE LET path == IF config.t = "str" /\ ~Exists(fs, wd, config.v)
                     THEN get_model_config_path(config.v)
                     ELSE config.v
             r == load_config(fs, wd, path)
         IN  [branches |-> <<"explicit">>, raised |-> r.raised,
              config |-> r.config, log |-> r.log]

\* load_model handed the checkpoint __init__ already holds, reading nothing
MutLoadModel(fs, wd, ckpt, config, model_path) ==
    LET cfg == [config EXCEPT !.pretrained = FALSE]
    IN  IF "ema" \in ckpt
        THEN [raised |-> "none", reads |-> 0, config |-> cfg,
              weights |-> "ema", wrapped |-> 1]
        ELSE IF "model" \in ckpt
        THEN [raised |-> "none", reads |-> 0, config |-> cfg,
              weights |-> "model", wrapped |-> 1]
        ELSE [raised |-> "KeyError", reads |-> 0, config |-> cfg,
              weights |-> "none", wrapped |-> 0]

\* load_model: reads the checkpoint again, switches HGNetv2 pretrained off,
\* takes the ema weights when present, else the plain ones, and wraps the
\* deploy-mode model
load_model(fs, wd, ckpt, config, model_path) ==
    IF ~Exists(fs, wd, model_path)
    THEN [raised |-> "FileNotFoundError", reads |-> 1, config |-> config,
          weights |-> "none", wrapped |-> 0]
    ELSE LET cfg == [config EXCEPT !.pretrained = FALSE]
         IN  IF "ema" \in ckpt
             THEN [raised |-> "none", reads |-> 1, config |-> cfg,
                   weights |-> "ema", wrapped |-> 1]
             ELSE IF "model" \in ckpt
             THEN [raised |-> "none", reads |-> 1, config |-> cfg,
                   weights |-> "model", wrapped |-> 1]
             ELSE [raised |-> "KeyError", reads |-> 1, config |-> cfg,
                   weights |-> "none", wrapped |-> 0]

NoSelf == [model_path |-> <<>>, config |-> None, device |-> None, weights |-> "none"]

NoCall == [op |-> "none"]

\* the whole of __init__ as a function of its arguments and the environment
InitResult(fs, wd, ckpt, hasCuda, model, config, device) ==
    LET base == [raised |-> "none", self |-> NoSelf, module_dev |-> "none",
                 reads |-> 0, configs |-> 0, modules |-> 0,
                 branches |-> <<>>, log |-> <<>>,
                 model |-> model, config |-> config, device |-> device]
    IN
    IF model.t = "none" THEN [base EXCEPT !.raised = "ValueError"]
    ELSE
    LET model_path == infer_pretrained_model(model.v)
        s1 == [base EXCEPT
                 !.self.model_path = model_path,
                 !.log = IF Exists(fs, wd, model.v) THEN <<"error:not_found">> ELSE <<>>,
                 !.reads = 1]
    IN
    IF ~Exists(fs, wd, model_path) THEN [s1 EXCEPT !.raised = "FileNotFoundError"]
    ELSE
    LET rc == ResolveConfig(fs, wd, ckpt, model, config)
        s2 == [s1 EXCEPT !.branches = rc.branches, !.log = @ \o rc.log]
    IN
    IF rc.raised # "none" THEN [s2 EXCEPT !.raised = rc.raised]
    ELSE
    LET dev == TorchDevice(infer_device(device, hasCuda))
        lm == load_model(fs, wd, ckpt, rc.config, model_path)
        s3 == [s2 EXCEPT !.self.config = lm.config, !.self.device = dev,
                         !.configs = 1, !.reads = @ + lm.reads,
                         !.log = @ \o <<"info:device">>]
    IN
    IF lm.raised # "none" THEN [s3 EXCEPT !.raised = lm.raised]
    ELSE IF dev.type = "cuda" /\ ~hasCuda
    THEN [s3 EXCEPT !.self.weights = lm.weights, !.modules = lm.wrapped,
                    !.raised = "RuntimeError", !.module_dev = "cpu"]
    ELSE [s3 EXCEPT !.self.weights = lm.weights, !.modules = lm.wrapped,
                    !.module_dev = dev.type]

Construct(model, config, device) ==
    /\ phase = "new"
    /\ LET r == InitResult(files, cwd, checkpoint, cuda, model, config, device)
       IN  /\ phase' = IF r.raised = "none" THEN "ready" ELSE "failed"
           /\ self' = r.self
           /\ module_dev' = r.module_dev
           /\ loads' = loads + r.reads
           /\ configs_built' = configs_built + r.configs
           /\ modules_built' = modules_built + r.modules
           /\ ctor' = [raised |-> r.raised, branches |-> r.branches, log |-> r.log,
                       model |-> r.model, config |-> r.config, device |-> r.device]
    /\ UNCHANGED <<files, cwd, checkpoint, cuda, last>>

-----------------------------------------------------------------------------
(* The export methods.  Each is a function from the exporter's state         *)
(* st = [model_path, device, module_dev, files, cwd], its arguments and the  *)
(* outcomes e of the backend calls it makes, to the result of the call:      *)
(* what it raised or returned, the disk and the module's device afterwards,  *)
(* the backend calls made in order, and the log lines written.               *)

\* What the backends may do in one call is a record e: whether the exported
\* graph and the simplified graph validate (onnx_valid, simp_valid), whether
\* save_model leaves a file (ov_saved), whether the ONNX file parses
\* (parse_ok), and how build_serialized_network ends (build).

\* the outcomes of the backend calls one method makes; the calls it never
\* makes are left at their good value
OutcomesOf(op) ==
    CASE op = "onnx" ->
           [onnx_valid : BOOLEAN, simp_valid : {TRUE}, ov_saved : {TRUE},
            parse_ok : {TRUE}, build : {"ok"}]
      [] op = "onnx_simplify" ->
           [onnx_valid : BOOLEAN, simp_valid : BOOLEAN, ov_saved : {TRUE},
            parse_ok : {TRUE}, build : {"ok"}]
      [] op = "openvino" ->
           [onnx_valid : {TRUE}, simp_valid : {TRUE}, ov_saved : BOOLEAN,
            parse_ok : {TRUE}, build : {"ok"}]
      [] op = "engine" ->
           [onnx_valid : BOOLEAN, simp_valid : {TRUE}, ov_saved : {TRUE},
            parse_ok : BOOLEAN, build : {"ok", "null", "exception"}]
      [] OTHER ->
           [onnx_valid : {TRUE}, simp_valid : {TRUE}, ov_saved : {TRUE},
            parse_ok : {TRUE}, build : {"ok"}]

Start(st) ==
    [raised |-> "none", returned |-> FALSE, ret |-> <<>>,
     files |-> st.files, module_dev |-> st.module_dev,
     trace |-> <<>>, log |-> <<>>, onnx_devs |-> <<>>,
     flags |-> {}, ov_compress |-> FALSE]

\* a method stopping with an exception
Raise(r, error) == [r EXCEPT !.raised = error]

\* a method returning a path
Return(r, path) == [r EXCEPT !.returned = TRUE, !.ret = path]

\* backend calls made and log lines written, appended in order
Did(r, calls, lines) == [r EXCEPT !.trace = @ \o calls, !.log = @ \o lines]

\* export2onnx
export2onnx(st, dynamic, simplify, e) ==
    LET input_dev == st.device.type
        exported_path == SplitextRoot(st.model_path) \o <<".", "onnx">>
        mdev == IF dynamic THEN "cpu" ELSE st.module_dev
        idev == IF dynamic THEN "cpu" ELSE input_dev
        r0 == [Start(st) EXCEPT
                 !.module_dev = mdev,
                 !.trace = <<"export2onnx", "torch.onnx.export">>,
                 !.onnx_devs = <<[module |-> mdev, input |-> idev]>>]
    IN
    IF mdev # idev THEN Raise(r0, "RuntimeError")
    ELSE
    LET r1 == [r0 EXCEPT
                 !.files = @ \cup {Resolve(st.cwd, exported_path)},
                 !.trace = @ \o <<"onnx.checker.check_model">>]
    IN
    IF ~e.onnx_valid THEN Raise(r1, "ValidationError")
    ELSE IF ~simplify
    THEN Return(Did(r1, <<>>, <<"info:exported_to_onnx">>), exported_path)
    ELSE
    LET r3 == Did(r1, <<"onnxsim.simplify", "onnx.save", "onnx.checker.check_model">>,
                  <<"info:exported_to_onnx", "info:simplifying">>)
    IN
    IF ~e.simp_valid THEN Raise(r3, "ValidationError")
    ELSE Return(Did(r3, <<>>, <<"info:simplified_exported_to_onnx">>), exported_path)

\* export_openvino
export_openvino(st, fp16, e) ==
    LET output_path == SplitextRoot(st.model_path) \o <<".", "xml">>
    IN  [Start(st) EXCEPT
           !.module_dev = "cpu",
           !.trace = <<"export_openvino", "ov.convert_model", "ov.save_model">>,
           !.ov_compress = fp16,
           !.files = IF e.ov_saved
                     THEN @ \cup {Resolve(st.cwd, output_path)}
                     ELSE @,
           !.returned = TRUE, !.ret = output_path]

\* export_engine: the device check
DeviceIsCpuOrUnset(device) == PyEq(device, None) \/ PyEq(device, Str("cpu"))

\* export_engine: the precision branches on dtype.lower()
MutConfigurePrecision(dtype) ==
    IF Lower(dtype) = S_fp16 THEN [flags |-> {"FP16"}, raised |-> "none"]
    ELSE IF Lower(dtype) = S_int8 THEN [flags |-> {"INT8"}, raised |-> "none"]
    ELSE [flags |-> {}, raised |-> "none"]

ConfigurePrecision(dtype) ==
    IF Lower(dtype) = S_fp16 THEN [flags |-> {"FP16"}, raised |-> "none"]
    ELSE IF Lower(dtype) = S_int8
    THEN [flags |-> {"INT8"}, raised |-> "NotImplementedError"]
    ELSE [flags |-> {}, raised |-> "none"]

\* export_engine from the ONNX file on: pre is what getting that file left
BuildEngine(st, dtype, e, pre) ==
    LET r2 == Did([pre EXCEPT !.returned = FALSE, !.ret = <<>>],
                  <<"trt.Logger", "trt.Builder", "create_network",
                    "trt.OnnxParser", "parse_from_file">>, <<>>)
    IN
    IF ~e.parse_ok THEN Raise(r2, "RuntimeError")
    ELSE
    LET pc == ConfigurePrecision(dtype)
        r3 == [r2 EXCEPT !.trace = @ \o <<"create_builder_config">>,
                         !.flags = pc.flags]
    IN
    IF pc.raised # "none" THEN Raise(r3, pc.raised)
    ELSE
    LET r4 == Did(r3, <<"build_serialized_network">>, <<>>)
        engine_f == PathStem(st.model_path) \o <<"_">> \o dtype \o <<".", "engine">>
    IN
    IF e.build # "ok" THEN Raise(r4, "RuntimeError")
    ELSE Return([Did(r4, <<"write_engine">>, <<"info:trt_engine_saved">>)
                   EXCEPT !.files = @ \cup {Resolve(st.cwd, engine_f)}],
                engine_f)

\* the calls of a nested method, after the calls already made
Within(calls, r) == [r EXCEPT !.trace = calls \o @]

\* export_engine
export_engine(st, dtype, e) ==
    IF DeviceIsCpuOrUnset(st.device)
    THEN Raise(Did(Start(st), <<"export_engine">>, <<>>), "ValueError")
    ELSE IF EndsWithOnnx(st.model_path)
    THEN BuildEngine(st, dtype, e,
                     Return(Did(Start(st), <<"export_engine">>, <<>>), st.model_path))
    ELSE LET pre == Within(<<"export_engine">>, export2onnx(st, FALSE, FALSE, e))
         IN  IF pre.raised # "none" THEN pre ELSE BuildEngine(st, dtype, e, pre)

\* export: where the if/elif chain on export_format.lower().strip() goes
MutRoute(export_format) ==
    LET f == Strip(Lower(export_format))
    IN  IF f = S_openvino THEN "openvino"
        ELSE IF f = S_engine \/ f = S_tensorrt THEN "engine"
        ELSE "onnx"

Route(export_format) ==
    LET f == Strip(Lower(export_format))
    IN  IF f = S_onnx THEN "onnx"
        ELSE IF f = S_openvino THEN "openvino"
        ELSE IF f = S_engine \/ f = S_tensorrt THEN "engine"
        ELSE "unmatched"

\* export: an int input_size becomes the pair (input_size, input_size)
Broadcast(input_size) ==
    IF input_size.t = "int" THEN <<input_size.v, input_size.v>> ELSE input_size.v

\* export once the chosen exporter is done: x is what that exporter left.  In
\* the result ret is exported_path, the path the exporter gave back.
CheckExported(st, x) ==
    LET r == [x EXCEPT !.log = <<"info:exporting">> \o @]
    IN  IF x.raised # "none" THEN [r EXCEPT !.returned = FALSE, !.ret = <<>>]
        ELSE IF ~Exists(x.files, st.cwd, x.ret)
        THEN Did(r, <<>>, <<"error:failed_to_export", "info:model_exported_to">>)
        ELSE Did(r, <<>>, <<"info:model_exported_to">>)

\* export: the exporter a matched format goes to
Dispatch(st, to, fp16, e) ==
    CASE to = "onnx" -> export2onnx(st, FALSE, FALSE, e)
      [] to = "openvino" -> export_openvino(st, fp16, e)
      [] to = "engine" -> export_engine(st, S_fp32, e)

\* export
export(st, input_size, export_format, fp16, e) ==
    LET about == [dispatched |-> <<>>, size |-> Broadcast(input_size)]
    IN
    IF export_format.t = "none" THEN Raise(Start(st), "ValueError") @@ about
    ELSE
    LET to == Route(export_format.v)
    IN  IF to = "unmatched"
        THEN Raise(Did(Start(st), <<>>, <<"info:exporting">>), "UnboundLocalError")
               @@ about
        ELSE CheckExported(st, Dispatch(st, to, fp16, e))
               @@ [about EXCEPT !.dispatched = <<to>>]

-----------------------------------------------------------------------------
(* Arguments callers pass *)

FormatArgs ==
    { None,
      Str(<<>>),
      Str(S_onnx),
      Str(<<" ", "O", "N", "N", "X", "\n">>),
      Str(<<"O", "p", "e", "n", "V", "I", "N", "O">>),
      Str(S_engine),
      Str(<<"T", "e", "n", "s", "o", "r", "R", "T", " ">>),
      Str(<<"t", "f", "l", "i", "t", "e">>) }

InputSizeArgs == { IntV(640), TupleV(<<640, 640>>) }

DtypeArgs == { S_fp32, S_fp16, S_int8, <<"I", "N", "T", "8">> }

\* the constructor arguments of the exporters whose export calls are followed
LifeModelArgs ==
    { Str(<<"/", "d", "/", "m", ".", "pth">>),
      Str(<<"/", "d", "/", "m", ".", "onnx">>) }

LifeConfigArgs == { None }

LifeDeviceArgs == { Str("cpu"), Str("cuda:0") }

-----------------------------------------------------------------------------
(* The state machine: one ModelExporter from construction through its calls *)

Fresh ==
    /\ phase = "new"
    /\ self = NoSelf
    /\ module_dev = "none"
    /\ loads = 0
    /\ configs_built = 0
    /\ modules_built = 0
    /\ ctor = [raised |-> "none", branches |-> <<>>, log |-> <<>>,
               model |-> None, config |-> None, device |-> None]
    /\ last = NoCall

\* a machine with an accelerator, every checkpoint on disk
Init ==
    /\ Fresh
    /\ files = CkptFiles \cup ConfigFiles
    /\ cwd \in WorkDirs
    /\ checkpoint = {"cfg", "ema"}
    /\ cuda = TRUE

\* any machine, any disk, any checkpoint
InitAny ==
    /\ Fresh
    /\ files \in InitialDisks
    /\ cwd \in WorkDirs
    /\ checkpoint \in CheckpointKeys
    /\ cuda \in BOOLEAN

State ==
    [model_path |-> self.model_path, device |-> self.device,
     module_dev |-> module_dev, files |-> files, cwd |-> cwd]

\* what a finished call leaves behind
Finish(call, r) ==
    /\ files' = r.files
    /\ module_dev' = r.module_dev
    /\ last' = call @@ r @@ [pre_dev |-> module_dev]
    /\ UNCHANGED <<phase, cwd, checkpoint, cuda, self, loads, configs_built,
                   modules_built, ctor>>

Export(input_size, export_format, fp16, e) ==
    /\ phase = "ready"
    /\ Finish([op |-> "export", export_format |-> export_format, fp16 |-> fp16],
              export(State, input_size, export_format, fp16, e))

Export2Onnx(dynamic, simplify, e) ==
    /\ phase = "ready"
    /\ Finish([op |-> "export2onnx", dynamic |-> dynamic, simplify |-> simplify],
              export2onnx(State, dynamic, simplify, e))

ExportOpenvino(fp16, e) ==
    /\ phase = "ready"
    /\ Finish([op |-> "export_openvino", fp16 |-> fp16],
              export_openvino(State, fp16, e))

ExportEngine(dtype, e) ==
    /\ phase = "ready"
    /\ Finish([op |-> "export_engine", dtype |-> dtype],
              export_engine(State, dtype, e))

Next ==
    \/ \E model \in LifeModelArgs, config \in LifeConfigArgs,
          device \in LifeDeviceArgs :
          Construct(model, config, device)
    \/ \E input_size \in InputSizeArgs, export_format \in FormatArgs,
          fp16 \in BOOLEAN :
          \E e \in OutcomesOf(IF export_format.t = "none" THEN "none"
                              ELSE Route(export_format.v)) :
             Export(input_size, export_format, fp16, e)
    \/ \E dynamic \in BOOLEAN, simplify \in BOOLEAN :
          \E e \in OutcomesOf(IF simplify THEN "onnx_simplify" ELSE "onnx") :
             Export2Onnx(dynamic, simplify, e)
    \/ \E fp16 \in BOOLEAN, e \in OutcomesOf("openvino") : ExportOpenvino(fp16, e)
    \/ \E dtype \in DtypeArgs, e \in OutcomesOf("engine") : ExportEngine(dtype, e)

Spec == Init /\ [][Next]_vars

\* construction alone, over every argument and environment
NextConstruct ==
    \E model \in ModelArgs, config \in ConfigArgs, device \in DeviceArgs :
       Construct(model, config, device)

SpecConstruct == InitAny /\ [][NextConstruct]_vars

-----------------------------------------------------------------------------
(* Properties *)

InSeq(s, x) == \E i \in 1..Len(s) : s[i] = x

SupportedNames == {S_onnx, S_openvino, S_engine, S_tensorrt}

\* a format that names a supported target once trimmed and lowercased
Supported(f) == f.t = "str" /\ Lower(Strip(f.v)) \in SupportedNames

\* the exporter a supported format names
TargetOf(f) ==
    LET n == Lower(Strip(f.v))
    IN  IF n = S_onnx THEN "onnx" ELSE IF n = S_openvino THEN "openvino" ELSE "engine"

EntryOf(target) ==
    CASE target = "onnx" -> "export2onnx"
      [] target = "openvino" -> "export_openvino"
      [] target = "engine" -> "export_engine"

\* the last call went to the TensorRT exporter, directly or through export
EngineCall ==
    \/ last.op = "export_engine"
    \/ last.op = "export" /\ last.dispatched = <<"engine">>

Accelerated == phase = "ready" /\ self.device.type = "cuda"

\* the exporter wraps a checkpoint whose name does not end in onnx
PlainCheckpoint == phase = "ready" /\ ~EndsWithOnnx(self.model_path)

\* C1: an export() whose format is None, empty or not one of onnx, openvino,
\* engine, tensorrt after trimming and lowercasing raises without any exporter
\* or backend call having run; an export() with a supported format enters
\* exactly one exporter from the dispatcher, the one the format names.
C1_BadFormatFailsBeforeAnyBackend ==
    last.op = "export" =>
        IF Supported(last.export_format)
        THEN /\ last.dispatched = <<TargetOf(last.export_format)>>
             /\ last.trace # <<>>
             /\ last.trace[1] = EntryOf(TargetOf(last.export_format))
             /\ \A i \in 2..Len(last.trace) :
                   last.trace[i] \notin {"export_openvino", "export_engine"}
        ELSE /\ last.raised # "none"
             /\ ~last.returned
             /\ last.dispatched = <<>>
             /\ last.trace = <<>>

\* an export() with a format string that names nothing has failed
C1_Witness ==
    /\ last.op = "export"
    /\ last.export_format.t = "str"
    /\ last.export_format.v # <<>>
    /\ ~Supported(last.export_format)
    /\ last.raised = "UnboundLocalError"

\* C2: when the chosen exporter returned a path, export() logs the success
\* message only if a file exists at that path; when the file is absent it
\* logs an error, raises nothing and does not report success.
C2_SuccessOnlyWithFile ==
    (PlainCheckpoint /\ last.op = "export" /\ last.returned) =>
        /\ last.raised = "none"
        /\ InSeq(last.log, "info:model_exported_to") => Exists(files, cwd, last.ret)
        /\ ~Exists(files, cwd, last.ret) =>
              /\ InSeq(last.log, "error:failed_to_export")
              /\ ~InSeq(last.log, "info:model_exported_to")

\* C3: on an exporter built for an accelerator, every export call that returns
\* leaves the wrapped module on self.device, and torch.onnx.export never runs
\* with the module on the CPU and the synthetic input on the accelerator.
C3_ModuleStaysOnDevice ==
    (Accelerated /\ PlainCheckpoint /\ last.op # "none") =>
        /\ last.raised = "none" => module_dev = self.device.type
        /\ \A i \in 1..Len(last.onnx_devs) :
              ~(last.onnx_devs[i].module = "cpu" /\ last.onnx_devs[i].input = "cuda")

\* C4: export_engine on an exporter whose device is the CPU fails with the
\* GPU-required ValueError before the ONNX pre-export runs and before any
\* TensorRT object is built.
C4_EngineOnCpuFailsFirst ==
    (PlainCheckpoint /\ self.device.type = "cpu" /\ EngineCall) =>
        /\ last.raised = "ValueError"
        /\ last.trace = <<"export_engine">>

\* C5: once the checkpoint is loaded, exactly one config branch runs: the
\* explicit one whenever a config argument is given, else the embedded one when
\* the checkpoint holds "cfg", else the inferred one; and the Config the
\* exporter ends up with is the one that branch builds.
C5_ConfigPrecedence ==
    (phase # "new" /\ ctor.model.t = "str"
       /\ Exists(files, cwd, infer_pretrained_model(ctor.model.v))) =>
        LET want == IF ctor.config.t # "none" THEN "explicit"
                    ELSE IF "cfg" \in checkpoint THEN "embedded"
                    ELSE "inferred"
        IN  /\ ctor.branches = <<want>>
            /\ phase = "ready" =>
                 CASE want = "explicit" ->
                        /\ self.config.origin = "file"
                        /\ self.config.path \in
                             {ctor.config.v, get_model_config_path(ctor.config.v)}
                   [] want = "embedded" -> self.config.origin = "state_dict"
                   [] want = "inferred" ->
                        /\ self.config.origin = "file"
                        /\ self.config.path = infer_model_config_path(ctor.model.v)

\* an exporter built with an explicit config from a checkpoint that embeds one
C5_Witness ==
    /\ phase = "ready"
    /\ ctor.config.t # "none"
    /\ "cfg" \in checkpoint
    /\ self.config.origin = "file"

\* the directory holding the file a path names
DirOf(wd, p) ==
    LET a == Resolve(wd, p) IN SubSeq(a, 1, RFind(a, "/") - 1)

\* where an artifact of the checkpoint with the given name ending belongs
Beside(ending) ==
    DirOf(cwd, self.model_path) \o <<"/">> \o PathStem(self.model_path) \o ending

\* the exporter whose path the last call gave back, and the dtype it used
LastTarget ==
    CASE last.op = "export2onnx" -> "onnx"
      [] last.op = "export_openvino" -> "openvino"
      [] last.op = "export_engine" -> "engine"
      [] last.op = "export" -> last.dispatched[1]

LastDtype == IF last.op = "export_engine" THEN last.dtype ELSE S_fp32

\* C6: on an accelerator, the path a successful export gives back names a file
\* in the directory of the checkpoint: <stem>.onnx, <stem>.xml or
\* <stem>_<dtype>.engine, whatever the working directory.
C6_ArtifactBesideCheckpoint ==
    (Accelerated /\ PlainCheckpoint /\ last.op # "none"
       /\ last.raised = "none" /\ last.returned) =>
        Resolve(cwd, last.ret) =
            CASE LastTarget = "onnx" -> Beside(<<".", "onnx">>)
              [] LastTarget = "openvino" -> Beside(<<".", "xml">>)
              [] LastTarget = "engine" ->
                   Beside(<<"_">> \o LastDtype \o <<".", "engine">>)

Int8Call == last.op = "export_engine" /\ Lower(last.dtype) = S_int8

Int8NothingBuilt ==
    /\ last.raised # "none"
    /\ ~last.returned
    /\ ~InSeq(last.trace, "build_serialized_network")
    /\ ~InSeq(last.trace, "write_engine")
    /\ ~Exists(files, cwd,
               PathStem(self.model_path) \o <<"_">> \o last.dtype \o <<".", "engine">>)

\* C7 as stated, on an accelerator: export_engine with dtype int8 in any
\* letter case fails with NotImplementedError, never calls
\* build_serialized_network, writes no engine file and returns no path.
C7_Int8AlwaysNotImplemented ==
    (Accelerated /\ PlainCheckpoint /\ Int8Call /\ last.pre_dev = "cuda") =>
        (last.raised = "NotImplementedError" /\ Int8NothingBuilt)

\* C7: export_engine with dtype int8 in any letter case fails, never calls
\* build_serialized_network, writes no engine file and returns no path; the
\* failure is NotImplementedError whenever the ONNX pre-export and the parse
\* of the ONNX file succeeded, and that earlier step's own error otherwise.
C7_Int8NeverBuilds ==
    Int8Call =>
        /\ Int8NothingBuilt
        /\ InSeq(last.trace, "create_builder_config") <=>
              last.raised = "NotImplementedError"
        /\ InSeq(last.trace, "create_builder_config") => last.flags = {"INT8"}

\* an upper-case INT8 request that got as far as the precision branches
C7_Witness ==
    /\ Int8Call
    /\ last.dtype # S_int8
    /\ last.raised = "NotImplementedError"

\* C8 as stated: an exporter of a checkpoint that is no ONNX file has
\* deserialized the checkpoint exactly once, at initialization, and built one
\* Config and one wrapped module, however many export calls it has served.
C8_CheckpointLoadedOnce ==
    (phase = "ready" /\ ~EndsWithOnnx(self.model_path)) =>
        /\ loads = 1
        /\ configs_built = 1
        /\ modules_built = 1

\* C8: an exporter of a checkpoint that is no ONNX file has deserialized the
\* checkpoint exactly twice, both times during construction, and no export
\* call reads it again; it has built one Config and one wrapped module,
\* however many export calls it has served.
C8_CheckpointLoadedTwiceAtInit ==
    (phase = "ready" /\ ~EndsWithOnnx(self.model_path)) =>
        /\ loads = 2
        /\ configs_built = 1
        /\ modules_built = 1

\* an exporter that has served an export call after its construction
C8_Witness ==
    /\ phase = "ready"
    /\ ~EndsWithOnnx(self.model_path)
    /\ last.op # "none"
    /\ last.raised = "none"
    /\ loads = 2

\* C9: construction logs "not found" exactly when the identifier as passed is
\* no existing path, and goes on with the path name resolution gave.
C9_NotFoundIffMissing ==
    (phase # "new" /\ ctor.model.t = "str") =>
        /\ InSeq(ctor.log, "error:not_found") <=> ~Exists(files, cwd, ctor.model.v)
        /\ self.model_path = infer_pretrained_model(ctor.model.v)

\* C10: on an accelerator, export() with fp16=True saves the OpenVINO model
\* with compress_to_fp16=True and builds the TensorRT engine with the FP16
\* flag; with fp16=False neither is set.
C10_Fp16OnBothPaths ==
    (Accelerated /\ PlainCheckpoint /\ last.op = "export"
       /\ last.raised = "none" /\ last.returned) =>
        /\ last.dispatched = <<"openvino">> => last.ov_compress = last.fp16
        /\ last.dispatched = <<"engine">> => (("FP16" \in last.flags) <=> last.fp16)

====
